---- MODULE Spec2Model ----
(***************************************************************************)
(* State-machine model of whisper_transcriber.py: the batch loop over the  *)
(* audio files of a directory, the chunked path (overlapping chunks,       *)
(* per-chunk transcription, compilation of one transcript per file) and    *)
(* the non-chunked whole-file path.                                        *)
(*                                                                         *)
(* Times: len(audio), start_ms, end_ms are milliseconds, as in pydub.     *)
(* segment["start"] is a float number of seconds in the program; here it  *)
(* is carried in milliseconds so that int() is a real truncation.         *)
(* A text is a sequence of one-character strings.                          *)
(***************************************************************************)
EXTENDS Integers, Sequences, FiniteSets, TLC

\* ------------------------------------------------------------------ bounds
\* Directory entries one run iterates over.
MaxFiles == 2
\* len(audio) is one of DurStepMs, 2*DurStepMs, ..., MaxDurSteps*DurStepMs,
\* or a whole number of chunks, from 1 to MaxWholeChunks.
DurStepMs == 25000
MaxDurSteps == 5
MaxWholeChunks == 2
\* chunk_duration_min ranges over 1..MaxChunkMin (the script ships 1).
MaxChunkMin == 1
\* Segments the model returns for one audio file, all chunks together.
MaxSegs == 2

\* ------------------------------------------------------- environment inputs
\* the values of len(audio), given the length of a chunk in ms
Durations(length_ms) ==
    {k * DurStepMs : k \in 1..MaxDurSteps}
        \cup {k * length_ms : k \in 1..MaxWholeChunks}

\* chunk_overlap_sec: the shipped 10 s, and no overlap.
Overlaps == {0, 10}

ModelNames == {"small", "large"}

Suffixes == {".mp3", ".WAV", ".txt"}

\* segment["start"] values (ms) and segment["text"] values the model may emit.
LocalStarts == {0, 500, 10000, 60000}

Texts == {<<" ", "a">>, <<"b">>}

Segments == [start : LocalStarts, text : Texts]

\* Every result["segments"] of at most n segments.
Results(n) == UNION {[1..k -> Segments] : k \in 0..n}

\* --------------------------------------------------------------- the state
VARIABLES
    model_name,          \* configuration, line 27
    chunk_duration_min,  \* configuration, line 41
    chunk_overlap_sec,   \* configuration, line 42
    pc,                  \* position of the script
    file_idx,            \* directory entries consumed by the for loop
    total_length,        \* len(audio) of the file being processed
    start_points,        \* list(range(0, total_length, chunk_length_ms))
    idx,                 \* index of the chunk loop
    start_ms,            \* start of the slice of the current chunk
    end_ms,              \* end of the slice of the current chunk
    chunk,               \* span of the audio held by audio[start_ms:end_ms]
    temp_files,          \* chunk indices whose .wav exists in temp_chunk_dir
    temp_dir,            \* whether temp_chunk_dir exists
    result,              \* result["segments"] of the last transcribe call
    all_segments,        \* dict idx -> [(start_sec, text)], in insertion order
    transcripts,         \* per-chunk transcript files of the file: idx -> lines
    compiled,            \* lines of the transcript written for the file
    written,             \* whether the final transcript of the file is written
    errors               \* chunk indices whose transcription error was logged

vars == <<model_name, chunk_duration_min, chunk_overlap_sec, pc, file_idx,
          total_length, start_points, idx, start_ms, end_ms, chunk,
          temp_files, temp_dir, result, all_segments, transcripts, compiled,
          written, errors>>

config == <<model_name, chunk_duration_min, chunk_overlap_sec>>

\* ------------------------------------------------------------ pure helpers
Min(a, b) == IF a <= b THEN a ELSE b

\* line 37
use_chunks == model_name \in {"medium", "large"}

\* line 43
chunk_duration_sec == chunk_duration_min * 60

\* line 61
chunk_length_ms == chunk_duration_sec * 1000

\* line 62
overlap_ms == chunk_overlap_sec * 1000

audio_extensions == {".mp3", ".wav", ".m4a", ".flac", ".ogg"}

\* str.lower() on the suffixes of the model
lower(s) == IF s = ".WAV" THEN ".wav" ELSE s

\* range with the stop included: one start point too many when stop is a
\* multiple of step
range_inclusive(start, stop, step) ==
    LET n == IF stop >= start THEN (stop - start) \div step + 1 ELSE 0
    IN  [i \in 1..n |-> start + (i - 1) * step]

\* list(range(start, stop, step)), step > 0
range(start, stop, step) ==
    LET n == IF stop > start THEN (stop - start + step - 1) \div step ELSE 0
    IN  [i \in 1..n |-> start + (i - 1) * step]

\* the slice without the trailing overlap
SliceBounds_NoTrailingOverlap(i, start_point, length_ms, ov_ms) ==
    IF i = 0
    THEN [start_ms |-> 0, end_ms |-> length_ms]
    ELSE [start_ms |-> start_point - ov_ms,
          end_ms   |-> start_point + length_ms]

\* lines 69-74: the slice bounds of chunk i (0-based) starting at start_point
SliceBounds(i, start_point, length_ms, ov_ms) ==
    IF i = 0
    THEN [start_ms |-> 0, end_ms |-> length_ms + ov_ms]
    ELSE [start_ms |-> start_point - ov_ms,
          end_ms   |-> start_point + length_ms + ov_ms]

\* line 76: audio[a:b] of pydub clamps both ends to len(audio)
Slice(len, a, b) == [from |-> Min(a, len), to |-> Min(b, len)]

\* int() of a float of seconds, held in ms: truncation toward zero
int(ms) == IF ms >= 0 THEN ms \div 1000 ELSE -((-ms) \div 1000)

\* str.strip() on a sequence of characters
RECURSIVE lstrip(_)
lstrip(t) == IF t # <<>> /\ Head(t) = " " THEN lstrip(Tail(t)) ELSE t

RECURSIVE rstrip(_)
rstrip(t) ==
    IF t # <<>> /\ t[Len(t)] = " " THEN rstrip(SubSeq(t, 1, Len(t) - 1)) ELSE t

strip(t) == rstrip(lstrip(t))

\* str(timedelta(seconds=sec)): "[D day(s), ]H:MM:SS", normalised as timedelta
\* does (0 <= seconds < 86400, days may be negative)
timestamp(sec) ==
    [days |-> sec \div 86400,
     h    |-> (sec % 86400) \div 3600,
     m    |-> (sec % 3600) \div 60,
     s    |-> sec % 60]

\* the line "[{}] {}\n".format(timestamp, text)
Line(sec, text) == [timestamp |-> timestamp(sec), text |-> text]

\* the start time a written line shows
LineStart(l) ==
    l.timestamp.days * 86400 + l.timestamp.h * 3600 + l.timestamp.m * 60
        + l.timestamp.s

\* line 96
start_sec(segment, sms) == int(segment.start) + sms \div 1000

\* lines 94-106: the (start_sec, text) pairs of one result, in emission order
Collected(res, sms) ==
    [k \in 1..Len(res) |-> <<start_sec(res[k], sms), strip(res[k].text)>>]

\* lines 94-101: the lines of the per-chunk transcript file
ChunkLines(res, sms) ==
    [k \in 1..Len(res) |-> Line(start_sec(res[k], sms), strip(res[k].text))]

\* lines 104-106: all_segments after the segments of chunk i were appended
\* (a chunk with no segment gets no key)
Collect(all, i, res, sms) ==
    IF Len(res) = 0 THEN all
    ELSE Append(all, [idx |-> i, segments |-> Collected(res, sms)])

\* code point order of the characters of the model
Ord(c) == CASE c = " " -> 32 [] c = "a" -> 97 [] c = "b" -> 98

\* Python's str < str
RECURSIVE StrLess(_, _)
StrLess(a, b) ==
    IF b = <<>> THEN FALSE
    ELSE IF a = <<>> THEN TRUE
    ELSE IF Head(a) # Head(b) THEN Ord(Head(a)) < Ord(Head(b))
    ELSE StrLess(Tail(a), Tail(b))

\* Python's tuple < tuple on (sec, text)
TupleLess(x, y) == x[1] < y[1] \/ (x[1] = y[1] /\ StrLess(x[2], y[2]))

\* insertion of x after every element not greater than it (keeps sorted stable)
RECURSIVE Insert(_, _)
Insert(x, s) ==
    IF s = <<>> THEN <<x>>
    ELSE IF TupleLess(x, Head(s)) THEN <<x>> \o s
    ELSE <<Head(s)>> \o Insert(x, Tail(s))

\* the segments taken in emission order, not sorted
sorted_unsorted(s) == s

\* a stable sort on the start second alone
RECURSIVE InsertByStart(_, _)
InsertByStart(x, s) ==
    IF s = <<>> THEN <<x>>
    ELSE IF x[1] < Head(s)[1] THEN <<x>> \o s
    ELSE <<Head(s)>> \o InsertByStart(x, Tail(s))

RECURSIVE sorted_by_start(_)
sorted_by_start(s) ==
    IF s = <<>> THEN <<>>
    ELSE InsertByStart(s[Len(s)], sorted_by_start(SubSeq(s, 1, Len(s) - 1)))

\* line 114: sorted(segments)
RECURSIVE sorted(_)
sorted(s) ==
    IF s = <<>> THEN <<>>
    ELSE Insert(s[Len(s)], sorted(SubSeq(s, 1, Len(s) - 1)))

\* no entry is ever taken for a duplicate
IsDuplicate_Never(key, unique_entries) == FALSE

\* line 116
IsDuplicate(key, unique_entries) == key \in unique_entries

\* line 118: the first second chunk i owns in the compiled transcript
nominal_start(i, cds) == i * cds

\* line 120: the first second after the ones chunk i owns
nominal_end(i, cds) == (i + 1) * cds

\* the lower bound off by one: the first owned second is dropped
BeforeChunk_Inclusive(sec, i, cds) == sec <= nominal_start(i, cds)

\* line 118
BeforeChunk(sec, i, cds) == sec < nominal_start(i, cds)

\* the upper bound off by one: the first second of the next chunk is kept
AfterChunk_Exclusive(sec, i, cds) == sec > nominal_end(i, cds)

\* line 120
AfterChunk(sec, i, cds) == sec >= nominal_end(i, cds)

\* lines 114-124: the inner loop over the sorted segments of chunk i;
\* st = [unique_entries, lines] is the state carried through the loop
RECURSIVE CompileChunk(_, _, _, _)
CompileChunk(segs, i, cds, st) ==
    IF segs = <<>> THEN st
    ELSE LET key == Head(segs)
             skip == \/ IsDuplicate(key, st.unique_entries)
                     \/ BeforeChunk(key[1], i, cds)
                     \/ AfterChunk(key[1], i, cds)
             nxt == IF skip THEN st
                    ELSE [unique_entries |-> st.unique_entries \cup {key},
                          lines |-> Append(st.lines, Line(key[1], key[2]))]
         IN  CompileChunk(Tail(segs), i, cds, nxt)

\* lines 113-124: the outer loop over all_segments.items()
RECURSIVE CompileItems(_, _, _)
CompileItems(items, cds, st) ==
    IF items = <<>> THEN st
    ELSE CompileItems(Tail(items), cds,
             CompileChunk(sorted(Head(items).segments), Head(items).idx, cds, st))

\* lines 109-124: the lines of the compiled transcript
CompiledLines(all, cds) ==
    CompileItems(all, cds, [unique_entries |-> {}, lines |-> <<>>]).lines

\* lines 150-155: the lines the non-chunked path writes
WholeLines(res) ==
    [k \in 1..Len(res) |-> Line(int(res[k].start), strip(res[k].text))]

\* segments collected so far for the file
RECURSIVE CountSegs(_)
CountSegs(all) ==
    IF all = <<>> THEN 0 ELSE Len(Head(all).segments) + CountSegs(Tail(all))

\* ---------------------------------------------------------------- initial
Init ==
    /\ model_name \in ModelNames
    /\ chunk_duration_min \in 1..MaxChunkMin
    /\ chunk_overlap_sec \in Overlaps
    /\ pc = "iter"
    /\ file_idx = 0
    /\ total_length = 0
    /\ start_points = <<>>
    /\ idx = 0
    /\ start_ms = 0
    /\ end_ms = 0
    /\ chunk = [from |-> 0, to |-> 0]
    /\ temp_files = {}
    /\ temp_dir = FALSE
    /\ result = <<>>
    /\ all_segments = <<>>
    /\ transcripts = <<>>
    /\ compiled = <<>>
    /\ written = FALSE
    /\ errors = {}

\* ------------------------------------------------------------ chunked path
\* At the head of the for loop the variables of the previous file are dead:
\* each is assigned before it is read again, and the transcripts of the
\* previous file are files the script never opens again. The model follows
\* the file in progress and clears them on every step that leaves the head.
ClearFile ==
    /\ total_length' = 0
    /\ start_points' = <<>>
    /\ idx' = 0
    /\ start_ms' = 0
    /\ end_ms' = 0
    /\ chunk' = [from |-> 0, to |-> 0]
    /\ result' = <<>>
    /\ all_segments' = <<>>
    /\ transcripts' = <<>>
    /\ compiled' = <<>>
    /\ written' = FALSE
    /\ errors' = {}

\* lines 46-48 and 130-132: an entry whose suffix is no audio extension is
\* skipped
SkipEntry ==
    /\ pc = "iter"
    /\ file_idx < MaxFiles
    /\ \E suffix \in Suffixes : lower(suffix) \notin audio_extensions
    /\ file_idx' = file_idx + 1
    /\ ClearFile
    /\ UNCHANGED <<config, pc, temp_files, temp_dir>>

\* lines 46-57: the next audio file; all_segments is emptied and the temporary
\* directory created
OpenFile ==
    /\ pc = "iter"
    /\ use_chunks
    /\ file_idx < MaxFiles
    /\ \E suffix \in Suffixes : lower(suffix) \in audio_extensions
    /\ file_idx' = file_idx + 1
    /\ ClearFile
    /\ temp_dir' = TRUE
    /\ temp_files' = {}
    /\ pc' = "load"
    /\ UNCHANGED config

\* lines 60-65: the audio is decoded and the chunk start points computed
LoadAudio ==
    /\ pc = "load"
    /\ \E d \in Durations(chunk_length_ms) :
        /\ total_length' = d
        /\ start_points' = range(0, d, chunk_length_ms)
    /\ idx' = 0
    /\ pc' = "chunk"
    /\ UNCHANGED <<config, file_idx, start_ms, end_ms, chunk, temp_files,
                   temp_dir, result, all_segments, transcripts, compiled,
                   written, errors>>

\* line 60: AudioSegment.from_file raises; nothing catches it: the with block
\* removes the temporary directory and the script ends with the exception
LoadAudioFails ==
    /\ pc = "load"
    /\ temp_dir' = FALSE
    /\ temp_files' = {}
    /\ pc' = "crashed"
    /\ UNCHANGED <<config, file_idx, total_length, start_points, idx, start_ms,
                   end_ms, chunk, result, all_segments, transcripts, compiled,
                   written, errors>>

\* lines 68-82: the slice of chunk idx is cut and exported to the temp dir
ExportChunk ==
    /\ pc = "chunk"
    /\ idx < Len(start_points)
    /\ LET b == SliceBounds(idx, start_points[idx + 1], chunk_length_ms,
                            overlap_ms)
       IN  /\ start_ms' = b.start_ms
           /\ end_ms' = b.end_ms
           /\ chunk' = Slice(total_length, b.start_ms, b.end_ms)
    /\ temp_files' = temp_files \cup {idx}
    /\ pc' = "transcribe"
    /\ UNCHANGED <<config, file_idx, total_length, start_points, idx, temp_dir,
                   result, all_segments, transcripts, compiled, written, errors>>

\* lines 86, 91-106: the chunk is transcribed, its transcript written and its
\* segments collected
Transcribe ==
    /\ pc = "transcribe"
    /\ \E res \in Results(MaxSegs - CountSegs(all_segments)) :
        /\ result' = res
        /\ transcripts' = Append(transcripts,
                                 [idx |-> idx, lines |-> ChunkLines(res, start_ms)])
        /\ all_segments' = Collect(all_segments, idx, res, start_ms)
    /\ idx' = idx + 1
    /\ pc' = "chunk"
    /\ UNCHANGED <<config, file_idx, total_length, start_points, start_ms,
                   end_ms, chunk, temp_files, temp_dir, compiled, written,
                   errors>>

\* model.transcribe raises and nothing catches it
TranscribeFails_Raises ==
    /\ pc = "transcribe"
    /\ temp_dir' = FALSE
    /\ temp_files' = {}
    /\ pc' = "crashed"
    /\ UNCHANGED <<config, file_idx, total_length, start_points, idx, start_ms,
                   end_ms, chunk, result, all_segments, transcripts, compiled,
                   written, errors>>

\* lines 85-89: model.transcribe raises; the error is logged and the loop
\* continues with the next chunk
TranscribeFails ==
    /\ pc = "transcribe"
    /\ errors' = errors \cup {idx}
    /\ idx' = idx + 1
    /\ pc' = "chunk"
    /\ UNCHANGED <<config, file_idx, total_length, start_points, start_ms,
                   end_ms, chunk, temp_files, temp_dir, result, all_segments,
                   transcripts, compiled, written>>

\* the chunk loop is over and the chunk files are left behind
CloseTempDir_Leaks ==
    /\ pc = "chunk"
    /\ idx >= Len(start_points)
    /\ pc' = "compile"
    /\ UNCHANGED <<config, file_idx, total_length, start_points, idx, start_ms,
                   end_ms, chunk, temp_files, temp_dir, result, all_segments,
                   transcripts, compiled, written, errors>>

\* line 56: the chunk loop is over, the with block ends and the temporary
\* directory is removed with every chunk file in it
CloseTempDir ==
    /\ pc = "chunk"
    /\ idx >= Len(start_points)
    /\ temp_dir' = FALSE
    /\ temp_files' = {}
    /\ pc' = "compile"
    /\ UNCHANGED <<config, file_idx, total_length, start_points, idx, start_ms,
                   end_ms, chunk, result, all_segments, transcripts, compiled,
                   written, errors>>

\* lines 108-126: the compiled transcript of the file is written
Compile ==
    /\ pc = "compile"
    /\ compiled' = CompiledLines(all_segments, chunk_duration_sec)
    /\ written' = TRUE
    /\ pc' = "iter"
    /\ UNCHANGED <<config, file_idx, total_length, start_points, idx, start_ms,
                   end_ms, chunk, temp_files, temp_dir, result, all_segments,
                   transcripts, errors>>

\* -------------------------------------------------------- non-chunked path
\* lines 130-137: the next audio file is decoded
WholeLoadAudio ==
    /\ pc = "iter"
    /\ ~use_chunks
    /\ file_idx < MaxFiles
    /\ \E suffix \in Suffixes : lower(suffix) \in audio_extensions
    /\ file_idx' = file_idx + 1
    /\ \E d \in Durations(chunk_length_ms) : total_length' = d
    /\ start_points' = <<>>
    /\ idx' = 0
    /\ start_ms' = 0
    /\ end_ms' = 0
    /\ chunk' = [from |-> 0, to |-> 0]
    /\ result' = <<>>
    /\ all_segments' = <<>>
    /\ transcripts' = <<>>
    /\ compiled' = <<>>
    /\ written' = FALSE
    /\ errors' = {}
    /\ pc' = "whole"
    /\ UNCHANGED <<config, temp_files, temp_dir>>

\* line 137: AudioSegment.from_file raises; nothing catches it
WholeLoadAudioFails ==
    /\ pc = "iter"
    /\ ~use_chunks
    /\ file_idx < MaxFiles
    /\ \E suffix \in Suffixes : lower(suffix) \in audio_extensions
    /\ file_idx' = file_idx + 1
    /\ ClearFile
    /\ pc' = "crashed"
    /\ UNCHANGED <<config, temp_files, temp_dir>>

\* lines 141, 146-157: the whole file is transcribed and its transcript written
WholeTranscribe ==
    /\ pc = "whole"
    /\ \E res \in Results(MaxSegs) :
        /\ result' = res
        /\ compiled' = WholeLines(res)
    /\ written' = TRUE
    /\ pc' = "iter"
    /\ UNCHANGED <<config, file_idx, total_length, start_points, idx, start_ms,
                   end_ms, chunk, temp_files, temp_dir, all_segments,
                   transcripts, errors>>

\* lines 140-144: model.transcribe raises; the error is logged, next file
WholeTranscribeFails ==
    /\ pc = "whole"
    /\ errors' = errors \cup {0}
    /\ pc' = "iter"
    /\ UNCHANGED <<config, file_idx, total_length, start_points, idx, start_ms,
                   end_ms, chunk, temp_files, temp_dir, result, all_segments,
                   transcripts, compiled, written>>

\* line 160: the directory is exhausted, "All files processed."
Finish ==
    /\ pc = "iter"
    /\ pc' = "done"
    /\ ClearFile
    /\ UNCHANGED <<config, file_idx, temp_files, temp_dir>>

Next ==
    \/ SkipEntry
    \/ OpenFile
    \/ LoadAudio
    \/ LoadAudioFails
    \/ ExportChunk
    \/ Transcribe
    \/ TranscribeFails
    \/ CloseTempDir
    \/ Compile
    \/ WholeLoadAudio
    \/ WholeLoadAudioFails
    \/ WholeTranscribe
    \/ WholeTranscribeFails
    \/ Finish

Spec == Init /\ [][Next]_vars

\* ------------------------------------------------- vocabulary of the claims
Max(a, b) == IF a >= b THEN a ELSE b

NumChunks == Len(start_points)

\* the chunk loop of the current file is running or has just ended
InChunkLoop == use_chunks /\ pc \in {"chunk", "transcribe", "compile"}

\* the compiled transcript of the current file has just been written
FileCompiled == use_chunks /\ pc = "iter" /\ written

\* chunk i owns second sec: the two bounds of lines 118-121
Owns(i, sec) ==
    /\ nominal_start(i, chunk_duration_sec) <= sec
    /\ sec < nominal_end(i, chunk_duration_sec)

\* the same with the end of the nominal range cut at the end of the audio
OwnsClamped(i, sec) ==
    /\ 1000 * nominal_start(i, chunk_duration_sec) <= 1000 * sec
    /\ 1000 * sec < Min(1000 * nominal_end(i, chunk_duration_sec), total_length)

Key(l) == <<LineStart(l), l.text>>

CompiledKeys == {Key(compiled[k]) : k \in DOMAIN compiled}

Items == {all_segments[k] : k \in DOMAIN all_segments}

SegKeys(item) == {item.segments[k] : k \in DOMAIN item.segments}

\* the (start, text) pairs of the chunks that own them
OwnedKeys ==
    UNION {{key \in SegKeys(item) : Owns(item.idx, key[1])} : item \in Items}

Occurrences(key) == Cardinality({k \in DOMAIN compiled : Key(compiled[k]) = key})

Position(key) == CHOOSE k \in DOMAIN compiled : Key(compiled[k]) = key

\* times (ms) around every chunk boundary and at both ends of the audio
ProbeTimes ==
    {t \in {0, total_length - 1}
           \cup {start_points[k] : k \in DOMAIN start_points}
           \cup {start_points[k] - 1 : k \in DOMAIN start_points} :
        0 <= t /\ t < total_length}

\* the nominal ranges start at 0, follow one another without gap or overlap,
\* start where the start points are, and every probed time of the audio lies
\* in exactly one of them
NominalChain ==
    LET n == NumChunks
        cds == chunk_duration_sec
    IN  /\ n >= 1
        /\ nominal_start(0, cds) = 0
        /\ \A i \in 0..(n - 1) : start_points[i + 1] = 1000 * nominal_start(i, cds)
        /\ \A i \in 0..(n - 2) : 1000 * nominal_end(i, cds) = start_points[i + 2]
        /\ start_points[n] < total_length
        /\ \A t \in ProbeTimes :
             Cardinality({i \in 0..(n - 1) :
                 /\ 1000 * nominal_start(i, cds) <= t
                 /\ t < 1000 * nominal_end(i, cds)}) = 1

\* ------------------------------------------------------------------ claims

\* C1 (as amended): for every total_duration > 0 the nominal ranges of the
\* chunks start at 0, each ends where the next starts, every time of
\* [0, total_duration) lies in exactly one of them, and the last one ends at
\* nominal_start + nominal_length, which is at or after total_duration and
\* equals it exactly when total_duration is a multiple of nominal_length.
C1_Tiling ==
    InChunkLoop =>
        /\ NominalChain
        /\ total_length <= 1000 * nominal_end(NumChunks - 1, chunk_duration_sec)
        /\ (total_length = 1000 * nominal_end(NumChunks - 1, chunk_duration_sec))
             <=> (total_length % chunk_length_ms = 0)

\* C1 (as stated): the same, with nominal_end(last) = total_duration always.
C1_TilingEndsAtTotal ==
    InChunkLoop =>
        /\ NominalChain
        /\ total_length = 1000 * nominal_end(NumChunks - 1, chunk_duration_sec)

\* C1 witness: a 125 s file cut in three chunks, the last one shorter.
C1_Witness ==
    /\ InChunkLoop
    /\ total_length = 125000
    /\ NumChunks = 3

\* C2: the audio read for chunk i is [read_start, read_end) with read_start = 0
\* for i = 0 and max(0, nominal_start - overlap) otherwise, and read_end =
\* min(total, min(nominal_start + nominal_length, total) + overlap); a file no
\* longer than one chunk is read whole in one chunk; 125 s with 60 s chunks and
\* 10 s overlap is read as [0,70), [50,125), [110,125).
C2_ReadRange ==
    (use_chunks /\ pc = "transcribe") =>
        LET ns == start_points[idx + 1]
            ne == Min(ns + chunk_length_ms, total_length)
            rs == IF idx = 0 THEN 0 ELSE Max(0, ns - overlap_ms)
            re == Min(total_length, ne + overlap_ms)
        IN  /\ chunk = [from |-> rs, to |-> re]
            /\ (total_length <= chunk_length_ms) =>
                  (NumChunks = 1 /\ chunk = [from |-> 0, to |-> total_length])
            /\ (total_length = 125000 /\ chunk_length_ms = 60000
                    /\ overlap_ms = 10000) =>
                  /\ NumChunks = 3
                  /\ idx = 0 => chunk = [from |-> 0, to |-> 70000]
                  /\ idx = 1 => chunk = [from |-> 50000, to |-> 125000]
                  /\ idx = 2 => chunk = [from |-> 110000, to |-> 125000]

\* C2 witness: the last chunk of the 125 s scenario has been cut.
C2_Witness ==
    /\ use_chunks
    /\ pc = "transcribe"
    /\ total_length = 125000
    /\ overlap_ms = 10000
    /\ idx = 2
    /\ chunk = [from |-> 110000, to |-> 125000]

\* C3 (as amended): every entry of the compiled transcript was returned for a
\* chunk w with w.nominal_start <= start < w.nominal_end, where nominal_end =
\* nominal_start + nominal_length (not cut at total_duration); exactly one
\* chunk's nominal range contains its start, and its start is before the
\* nominal end of the last chunk (it may be at or after total_duration).
C3_Ownership ==
    FileCompiled =>
        \A k \in DOMAIN compiled :
            LET key == Key(compiled[k])
            IN  /\ \E item \in Items : key \in SegKeys(item) /\ Owns(item.idx, key[1])
                /\ Cardinality({i \in 0..(NumChunks - 1) : Owns(i, key[1])}) = 1
                /\ key[1] < nominal_end(NumChunks - 1, chunk_duration_sec)

\* C3 (as stated): the same with nominal_end = min(nominal_start +
\* nominal_length, total_duration), so that no entry starts at or after
\* total_duration.
C3_OwnershipClamped ==
    FileCompiled =>
        \A k \in DOMAIN compiled :
            LET key == Key(compiled[k])
            IN  /\ \E item \in Items :
                     key \in SegKeys(item) /\ OwnsClamped(item.idx, key[1])
                /\ 1000 * key[1] < total_length

\* C3 witness: a file of several chunks was compiled, one returned segment was
\* kept and another, outside the nominal range of its chunk, was left out.
C3_Witness ==
    /\ FileCompiled
    /\ NumChunks >= 2
    /\ compiled # <<>>
    /\ \E item \in Items : \E key \in SegKeys(item) :
          ~Owns(item.idx, key[1]) /\ key \notin CompiledKeys

\* C4: the lines of the compiled transcript are non-decreasing in start time
\* over every adjacent pair, whatever the chunks returned and whichever failed.
C4_SortOrder ==
    FileCompiled =>
        \A k \in 1..(Len(compiled) - 1) :
            LineStart(compiled[k]) <= LineStart(compiled[k + 1])

\* C4 witness: a chunk returned two owned segments in descending start order
\* and both are in the compiled transcript.
C4_Witness ==
    /\ FileCompiled
    /\ Len(compiled) = 2
    /\ \E item \in Items :
          /\ Len(item.segments) = 2
          /\ item.segments[1][1] > item.segments[2][1]
          /\ SegKeys(item) \subseteq CompiledKeys

\* C5: no two entries of the compiled transcript have the same (start, text)
\* pair; when two adjacent chunks both return the pair (s, text) with s the
\* first second of the later chunk, the transcript holds it exactly once.
C5_NoDuplicates ==
    FileCompiled =>
        /\ \A j, k \in DOMAIN compiled :
              j # k => Key(compiled[j]) # Key(compiled[k])
        /\ \A x, y \in Items :
              (y.idx = x.idx + 1) =>
                  \A key \in SegKeys(x) \cap SegKeys(y) :
                      key[1] = nominal_start(y.idx, chunk_duration_sec)
                          => Occurrences(key) = 1

\* C5 witness: two adjacent chunks returned the same pair at the boundary
\* second, and one chunk returned the same pair twice.
C5_Witness ==
    /\ FileCompiled
    /\ \E x, y \in Items :
          /\ y.idx = x.idx + 1
          /\ \E key \in SegKeys(x) \cap SegKeys(y) :
                key[1] = nominal_start(y.idx, chunk_duration_sec)

\* C5 second case reached: one chunk returned the same owned pair twice.
C5_WitnessSameChunk ==
    /\ FileCompiled
    /\ \E item \in Items :
          /\ Len(item.segments) = 2
          /\ item.segments[1] = item.segments[2]
          /\ Owns(item.idx, item.segments[1][1])

\* C6, the states: a chunk whose transcription failed has no collected segment
\* and no transcript; the chunks were transcribed in index order; at
\* compilation every chunk either failed or was transcribed; the compiled
\* transcript holds exactly the owned segments of the chunks that did not
\* fail, so it is not empty when they own any.
C6_State ==
    use_chunks =>
        /\ \A i \in errors :
              /\ \A item \in Items : item.idx # i
              /\ \A k \in DOMAIN transcripts : transcripts[k].idx # i
        /\ \A j, k \in DOMAIN transcripts :
              j < k => transcripts[j].idx < transcripts[k].idx
        /\ (pc = "compile" \/ FileCompiled) =>
              \A i \in 0..(NumChunks - 1) :
                  i \in errors \/ \E k \in DOMAIN transcripts : transcripts[k].idx = i
        /\ FileCompiled =>
              /\ CompiledKeys = OwnedKeys
              /\ (OwnedKeys # {}) => (compiled # <<>>)

\* C6, the steps: whatever the transcription of a chunk does, the script goes
\* on to the next index of the chunk loop; and a compilation that is due is
\* followed by the batch loop with the transcript written.
C6_Step ==
    use_chunks =>
        /\ (pc = "transcribe") => (pc' = "chunk" /\ idx' = idx + 1)
        /\ (errors' \ errors # {}) => (all_segments' = all_segments)
        /\ (pc = "compile") => (pc' = "iter" /\ written')

\* C6: a failed transcription of chunk i leaves chunk i without segments,
\* every other chunk is still transcribed in index order, the compiled
\* transcript is still written with exactly the owned segments of the other
\* chunks, and the batch loop goes on.
C6_FailureIsolation == [](C6_State) /\ [][C6_Step]_vars

\* C6 witness: a file of several chunks was compiled after the transcription
\* of one chunk failed, and the transcript is not empty.
C6_Witness ==
    /\ FileCompiled
    /\ NumChunks >= 2
    /\ errors # {}
    /\ compiled # <<>>

\* C7 (as stated): a file that cannot be decoded is skipped and the batch goes
\* on to its normal end: the script is never stopped by the exception.
C7_DecodeErrorSkipsFile == pc # "crashed"

\* the segments of a result are strictly ascending in (start, text) and every
\* start is a second of the first chunk
Ascending(res) ==
    \A k \in 1..(Len(res) - 1) :
        TupleLess(<<int(res[k].start), strip(res[k].text)>>,
                  <<int(res[k + 1].start), strip(res[k + 1].text)>>)

InFirstChunk(res) == \A k \in DOMAIN res : Owns(0, int(res[k].start))

\* the only chunk of the file was transcribed and the file compiled
SingleChunkCompiled == FileCompiled /\ NumChunks = 1 /\ 0 \notin errors

\* C8 (as amended): for a file of a single chunk, the compiled transcript is
\* identical to the transcript of the non-chunked path whenever the returned
\* segments are strictly ascending in (truncated start, trimmed text) and
\* every truncated start is in [0, nominal_length); in every case each of its
\* lines is a line of the non-chunked transcript.
C8_SingleChunkEquivalence ==
    SingleChunkCompiled =>
        /\ (Ascending(result) /\ InFirstChunk(result))
              => compiled = WholeLines(result)
        /\ \A k \in DOMAIN compiled :
              \E j \in DOMAIN result : compiled[k] = WholeLines(result)[j]

\* C8 (as stated): identical for every segment sequence returned.
C8_AlwaysIdentical == SingleChunkCompiled => compiled = WholeLines(result)

\* C8 witness: two ascending segments of a single-chunk file, both written.
C8_Witness ==
    /\ SingleChunkCompiled
    /\ Len(result) = 2
    /\ Ascending(result)
    /\ InFirstChunk(result)
    /\ Len(compiled) = 2

\* C9 (as amended): entries of the compiled transcript with the same start
\* appear in ascending order of their texts (string order), whatever the order
\* in which they were returned.
C9_TiesByText ==
    FileCompiled =>
        \A k \in 1..(Len(compiled) - 1) :
            (LineStart(compiled[k]) = LineStart(compiled[k + 1]))
                => StrLess(compiled[k].text, compiled[k + 1].text)

\* C9 (as stated): two accepted segments of a chunk with the same start second
\* are written in the order in which they were returned.
C9_TiesByEmission ==
    FileCompiled =>
        \A item \in Items :
            \A j, k \in DOMAIN item.segments :
                (/\ j < k
                 /\ item.segments[j][1] = item.segments[k][1]
                 /\ item.segments[j] # item.segments[k]
                 /\ Owns(item.idx, item.segments[j][1]))
                    => Position(item.segments[j]) < Position(item.segments[k])

\* C9 witness: a chunk returned two owned segments of the same second, the
\* greater text first, and both are written.
C9_Witness ==
    /\ FileCompiled
    /\ Len(compiled) = 2
    /\ \E item \in Items :
          /\ Len(item.segments) = 2
          /\ item.segments[1][1] = item.segments[2][1]
          /\ StrLess(item.segments[2][2], item.segments[1][2])
          /\ Owns(item.idx, item.segments[1][1])

\* C10 (as amended): the chunk files of a file live in one temporary directory
\* and are released together when the chunk loop ends, whether transcriptions
\* succeeded or failed: while chunk i is processed the files of chunks 0..i
\* exist, and none exists outside the chunk loop.
C10_ReleasedWithDirectory ==
    /\ (pc = "load") => (temp_dir /\ temp_files = {})
    /\ (pc = "chunk") => (temp_dir /\ temp_files = 0..(idx - 1))
    /\ (pc = "transcribe") => (temp_dir /\ temp_files = 0..idx)
    /\ (pc \notin {"load", "chunk", "transcribe"})
          => (~temp_dir /\ temp_files = {})

\* C10 (as stated): at most one chunk file exists at any time, and none of an
\* earlier chunk once the processing of a chunk has ended.
C10_OneBufferAtATime ==
    /\ Cardinality(temp_files) <= 1
    /\ (pc = "chunk") => (\A j \in temp_files : j >= idx)

\* C10 witness: the chunk loop of a file of several chunks has ended after a
\* failed transcription and no chunk file is left.
C10_Witness ==
    /\ pc = "compile"
    /\ NumChunks >= 2
    /\ errors # {}
    /\ temp_files = {}

====
